---- MODULE Spec2Model ----
(***************************************************************************)
(* Model of the string-keyed open-addressing hash table of hashtable.c     *)
(* (create / destroy / get / set / length / iterator / next) together with *)
(* the heap blocks it allocates and releases.                              *)
(***************************************************************************)
EXTENDS Integers, Sequences, FiniteSets, TLC

(***************************************************************************)
(* Bounds of the model.                                                    *)
(***************************************************************************)
\* width in bits of size_t in the model (capacity * 2 wraps modulo 2^SizeBits)
SizeBits == 4

(***************************************************************************)
(* Program constants.                                                      *)
(***************************************************************************)
NULL == 0
INITIAL_CAPACITY == 1
\* 14695981039346656037 = 0xcbf29ce484222325, little-endian bytes
FNV_OFFSET == <<37, 35, 34, 132, 228, 156, 242, 203>>
\* 1099511628211 = 0x00000100000001b3, little-endian bytes
FNV_PRIME == <<179, 1, 0, 0, 0, 1, 0, 0>>

\* The key strings callers use, as NUL-terminated byte strings without the
\* terminator: "x", "h", "e", "id".  Their hashes end in the bytes 0x07, 0xd7,
\* 0xc0 and 0xc0: "x" and "h" start probing at the last slot of every array
\* of the model, "e" and "id" at slot 0.
KeyText == << <<120>>, <<104>>, <<101>>, <<105, 100>> >>
Keys == 1..Len(KeyText)
\* Two distinct non-NULL value pointers: the table stores and returns values
\* and never dereferences or compares them.
Values == {1, 2}


RECURSIVE Pow2(_)
Pow2(n) == IF n = 0 THEN 1 ELSE 2 * Pow2(n - 1)

\* size_t arithmetic is modulo 2^SizeBits
SizeMod == Pow2(SizeBits)

(***************************************************************************)
(* Unsigned machine arithmetic.  A u_int64_t is a sequence of 8 bytes,     *)
(* least significant first.                                                *)
(***************************************************************************)
RECURSIVE BitXor(_, _)
BitXor(a, b) ==
    IF a = 0 THEN b
    ELSE IF b = 0 THEN a
    ELSE (((a % 2) + (b % 2)) % 2) + 2 * BitXor(a \div 2, b \div 2)

RECURSIVE BitAnd(_, _)
BitAnd(a, b) ==
    IF a = 0 \/ b = 0 THEN 0
    ELSE ((a % 2) * (b % 2)) + 2 * BitAnd(a \div 2, b \div 2)

\* hash ^= (u_int64_t)(unsigned char)(*p)
Xor64(h, byte) == [h EXCEPT ![1] = BitXor(h[1], byte)]

RECURSIVE ColumnSum(_, _, _, _)
\* sum of a[i] * b[k + 1 - i] for i in j..k
ColumnSum(a, b, k, j) ==
    IF j > k THEN 0 ELSE (a[j] * b[k + 1 - j]) + ColumnSum(a, b, k, j + 1)

RECURSIVE MulLimbs(_, _, _, _)
\* bytes k..8 of a * b, given the carry into byte k
MulLimbs(a, b, k, carry) ==
    IF k > 8 THEN <<>>
    ELSE LET s == carry + ColumnSum(a, b, k, 1)
         IN  <<s % 256>> \o MulLimbs(a, b, k + 1, s \div 256)

\* hash *= FNV_PRIME (modulo 2^64)
Mul64(a, b) == MulLimbs(a, b, 1, 0)

RECURSIVE hash_loop(_, _, _)
hash_loop(str, p, hash) ==
    IF p > Len(str) THEN hash
    ELSE hash_loop(str, p + 1, Mul64(Xor64(hash, str[p]), FNV_PRIME))

\* The hashes of the key strings of the model, computed once.
KeyHashes ==
    [str \in {KeyText[k] : k \in 1..Len(KeyText)} |->
        hash_loop(str, 1, FNV_OFFSET)]

\* 64-bit FNV-1a hash of a NUL-terminated key
hash_key(str) == KeyHashes[str]

\* the hash masked with capacity / 2 instead of capacity - 1
StartIndex_half_mask(hash, capacity) ==
    BitAnd(hash[1] + 256 * hash[2], (capacity \div 2) % SizeMod)

\* (size_t)(hash & (u_int64_t)(capacity - 1)); capacity - 1 < 2^16
StartIndex(hash, capacity) ==
    BitAnd(hash[1] + 256 * hash[2], (capacity - 1) % SizeMod)

(***************************************************************************)
(* The heap.  A pointer is an index into the sequence of blocks ever       *)
(* allocated; NULL is 0.  The caller's key strings are the first blocks.  *)
(***************************************************************************)
EmptyEntry == [key |-> NULL, value |-> NULL]

Block(kind, str, slots) ==
    [kind |-> kind, live |-> TRUE, frees |-> 0, str |-> str, slots |-> slots]

\* malloc / strdup: a new block at the end of the heap
Alloc(h, kind, str, slots) == Append(h, Block(kind, str, slots))

\* calloc(n, sizeof(hashtable_entry)): n zeroed entries
Calloc(h, n) == Alloc(h, "entries", <<>>, [i \in 1..n |-> EmptyEntry])

\* free(p); free(NULL) does nothing
Free(h, p) ==
    IF p = NULL THEN h
    ELSE [h EXCEPT ![p] = [@ EXCEPT !.live = FALSE, !.frees = @ + 1,
                                    !.slots = <<>>]]

\* keys compared by address instead of by text
StrEq_by_pointer(h, a, b) == a = b

\* strcmp(a, b) == 0 on two key pointers
StrEq(h, a, b) == h[a].str = h[b].str

(***************************************************************************)
(* The table operations as functions of the heap and the table's fields.   *)
(* Indices are C indices 0..capacity-1; slot i of the array is slots[i+1]. *)
(***************************************************************************)
\* index++; if (index >= capacity) index = 0;
NextIndex(index, capacity) ==
    IF (index + 1) % SizeMod >= capacity THEN 0 ELSE (index + 1) % SizeMod

\* hashtable_get without probing: only the start slot is looked at
get_loop_first_slot(h, slots, capacity, key, index, seen) ==
    IF slots[index + 1].key # NULL /\ StrEq(h, key, slots[index + 1].key)
    THEN [hang |-> FALSE, value |-> slots[index + 1].value]
    ELSE [hang |-> FALSE, value |-> NULL]

\* hashtable_get taking any occupied slot for a match
get_loop_no_compare(h, slots, capacity, key, index, seen) ==
    [hang |-> FALSE, value |-> slots[index + 1].value]

RECURSIVE get_loop(_, _, _, _, _, _)
\* The probe loop of hashtable_get.  seen counts the slots examined so far;
\* once every slot was examined and none was empty or equal the loop of the
\* code never ends, which the result records as hang.
get_loop(h, slots, capacity, key, index, seen) ==
    IF slots[index + 1].key = NULL
    THEN [hang |-> FALSE, value |-> NULL]
    ELSE IF StrEq(h, key, slots[index + 1].key)
    THEN [hang |-> FALSE, value |-> slots[index + 1].value]
    ELSE IF seen + 1 >= capacity
    THEN [hang |-> TRUE, value |-> NULL]
    ELSE get_loop(h, slots, capacity, key, NextIndex(index, capacity), seen + 1)

hashtable_get(h, entries, capacity, key) ==
    get_loop(h, h[entries].slots, capacity, key,
             StartIndex(hash_key(h[key].str), capacity), 0)

RECURSIVE set_loop(_, _, _, _, _, _)
\* the probe loop of hashtable_set_entry stepping over every other slot
set_loop_skips_a_slot(h, slots, capacity, key, index, seen) ==
    IF slots[index + 1].key = NULL
    THEN [hang |-> FALSE, found |-> FALSE, index |-> index]
    ELSE IF StrEq(h, key, slots[index + 1].key)
    THEN [hang |-> FALSE, found |-> TRUE, index |-> index]
    ELSE IF seen + 1 >= capacity
    THEN [hang |-> TRUE, found |-> FALSE, index |-> index]
    ELSE set_loop(h, slots, capacity, key,
                  NextIndex(NextIndex(index, capacity), capacity), seen + 1)

\* The probe loop of hashtable_set_entry: the index of the slot holding key,
\* or of the first empty slot of its probe sequence.
set_loop(h, slots, capacity, key, index, seen) ==
    IF slots[index + 1].key = NULL
    THEN [hang |-> FALSE, found |-> FALSE, index |-> index]
    ELSE IF StrEq(h, key, slots[index + 1].key)
    THEN [hang |-> FALSE, found |-> TRUE, index |-> index]
    ELSE IF seen + 1 >= capacity
    THEN [hang |-> TRUE, found |-> FALSE, index |-> index]
    ELSE set_loop(h, slots, capacity, key, NextIndex(index, capacity), seen + 1)

\* an overwrite that leaves the stored value as it is
SetValue_keeps_old(h, entries, index, value) == h

\* entries[index].value = value in the array at pointer entries
SetValue(h, entries, index, value) ==
    [h EXCEPT ![entries].slots[index + 1].value = value]

\* entries[index] = (key, value) in the array at pointer entries
StoreEntry(h, entries, index, key, value) ==
    [h EXCEPT ![entries].slots[index + 1] = [key |-> key, value |-> value]]

\* plength is <<>> for a NULL pointer and <<n>> for a pointer to a cell
\* holding n.  The result gives the heap, the cell behind plength and the
\* returned key pointer.
\* hashtable_set_entry counting the key before it copies it: (*plength)++
\* ahead of the strdup
hashtable_set_entry_counts_first(h, entries, capacity, key, value, plength, strdupOk) ==
    LET p == set_loop(h, h[entries].slots, capacity, key,
                      StartIndex(hash_key(h[key].str), capacity), 0)
        stored == h[entries].slots[p.index + 1].key
        copied == Alloc(h, "key", h[key].str, <<>>)
    IN  IF p.hang
        THEN [hang |-> TRUE, heap |-> h, plength |-> plength, result |-> NULL]
        ELSE IF p.found
        THEN [hang |-> FALSE,
              heap |-> SetValue(h, entries, p.index, value),
              plength |-> plength, result |-> stored]
        ELSE IF plength # <<>>
        THEN IF ~strdupOk
             THEN [hang |-> FALSE, heap |-> h,
                   plength |-> <<(plength[1] + 1) % SizeMod>>,
                   result |-> NULL]
             ELSE [hang |-> FALSE,
                   heap |-> StoreEntry(copied, entries, p.index, Len(copied),
                                       value),
                   plength |-> <<(plength[1] + 1) % SizeMod>>,
                   result |-> Len(copied)]
        ELSE [hang |-> FALSE,
              heap |-> StoreEntry(h, entries, p.index, key, value),
              plength |-> plength, result |-> key]

hashtable_set_entry(h, entries, capacity, key, value, plength, strdupOk) ==
    LET p == set_loop(h, h[entries].slots, capacity, key,
                      StartIndex(hash_key(h[key].str), capacity), 0)
        stored == h[entries].slots[p.index + 1].key
        copied == Alloc(h, "key", h[key].str, <<>>)
    IN  IF p.hang
        THEN [hang |-> TRUE, heap |-> h, plength |-> plength, result |-> NULL]
        ELSE IF p.found
        THEN [hang |-> FALSE,
              heap |-> SetValue(h, entries, p.index, value),
              plength |-> plength, result |-> stored]
        ELSE IF plength # <<>>
        THEN IF ~strdupOk
             THEN [hang |-> FALSE, heap |-> h, plength |-> plength,
                   result |-> NULL]
             ELSE [hang |-> FALSE,
                   heap |-> StoreEntry(copied, entries, p.index, Len(copied),
                                       value),
                   plength |-> <<(plength[1] + 1) % SizeMod>>,
                   result |-> Len(copied)]
        ELSE [hang |-> FALSE,
              heap |-> StoreEntry(h, entries, p.index, key, value),
              plength |-> plength, result |-> key]

RECURSIVE expand_loop(_, _, _, _, _, _)
\* the move loop stopping one slot early: for (i = 0; i < capacity - 1; i++)
expand_loop_stops_early(h, entries, capacity, new_entries, new_capacity, i) ==
    IF i >= capacity - 1 THEN [hang |-> FALSE, heap |-> h]
    ELSE LET entry == h[entries].slots[i + 1]
             r == hashtable_set_entry(h, new_entries, new_capacity, entry.key,
                                      entry.value, <<>>, TRUE)
         IN  IF entry.key = NULL
             THEN expand_loop(h, entries, capacity, new_entries, new_capacity,
                              i + 1)
             ELSE expand_loop(r.heap, entries, capacity, new_entries,
                              new_capacity, i + 1)

\* the move loop passing a length cell instead of NULL, so that
\* hashtable_set_entry copies every key it moves
expand_loop_copies_keys(h, entries, capacity, new_entries, new_capacity, i) ==
    IF i >= capacity THEN [hang |-> FALSE, heap |-> h]
    ELSE LET entry == h[entries].slots[i + 1]
             r == hashtable_set_entry(h, new_entries, new_capacity, entry.key,
                                      entry.value, <<0>>, TRUE)
         IN  IF entry.key = NULL
             THEN expand_loop(h, entries, capacity, new_entries, new_capacity,
                              i + 1)
             ELSE IF r.hang THEN [hang |-> TRUE, heap |-> r.heap]
             ELSE expand_loop(r.heap, entries, capacity, new_entries,
                              new_capacity, i + 1)

\* for (i = 0; i < table->capacity; i++) move entries[i] into new_entries
expand_loop(h, entries, capacity, new_entries, new_capacity, i) ==
    IF i >= capacity THEN [hang |-> FALSE, heap |-> h]
    ELSE LET entry == h[entries].slots[i + 1]
             r == hashtable_set_entry(h, new_entries, new_capacity, entry.key,
                                      entry.value, <<>>, TRUE)
         IN  IF entry.key = NULL
             THEN expand_loop(h, entries, capacity, new_entries, new_capacity,
                              i + 1)
             ELSE IF r.hang THEN [hang |-> TRUE, heap |-> r.heap]
             ELSE expand_loop(r.heap, entries, capacity, new_entries,
                              new_capacity, i + 1)

\* growing by a fixed step instead of doubling: new_capacity = capacity + 2
hashtable_expand_fixed_step(h, entries, capacity, callocOk) ==
    LET new_capacity == (capacity + 2) % SizeMod
        allocated == Calloc(h, new_capacity)
        new_entries == Len(allocated)
        moved == expand_loop(allocated, entries, capacity, new_entries,
                             new_capacity, 0)
        unchanged == [hang |-> FALSE, ok |-> FALSE, heap |-> h,
                      entries |-> entries, capacity |-> capacity]
    IN  IF new_capacity < capacity THEN unchanged
        ELSE IF ~callocOk THEN unchanged
        ELSE IF moved.hang THEN [unchanged EXCEPT !.hang = TRUE]
        ELSE [hang |-> FALSE, ok |-> TRUE,
              heap |-> Free(moved.heap, entries),
              entries |-> new_entries, capacity |-> new_capacity]

hashtable_expand(h, entries, capacity, callocOk) ==
    LET new_capacity == (capacity * 2) % SizeMod
        allocated == Calloc(h, new_capacity)
        new_entries == Len(allocated)
        moved == expand_loop(allocated, entries, capacity, new_entries,
                             new_capacity, 0)
        unchanged == [hang |-> FALSE, ok |-> FALSE, heap |-> h,
                      entries |-> entries, capacity |-> capacity]
    IN  IF new_capacity < capacity THEN unchanged
        ELSE IF ~callocOk THEN unchanged
        ELSE IF moved.hang THEN [unchanged EXCEPT !.hang = TRUE]
        ELSE [hang |-> FALSE, ok |-> TRUE,
              heap |-> Free(moved.heap, entries),
              entries |-> new_entries, capacity |-> new_capacity]

\* growing one insertion too late: length > capacity / 2
NeedsExpand_too_late(length, capacity) == length > capacity \div 2

\* growing only a table that is full: length >= capacity
NeedsExpand_when_full(length, capacity) == length >= capacity

\* if (table->length >= table->capacity / 2)
NeedsExpand(length, capacity) == length >= capacity \div 2

\* hashtable_set going on to hashtable_set_entry when hashtable_expand failed
hashtable_set_ignores_expand(h, entries, capacity, length, key, value, callocOk, strdupOk) ==
    LET needs == NeedsExpand(length, capacity)
        e == IF needs
             THEN hashtable_expand(h, entries, capacity, callocOk)
             ELSE [hang |-> FALSE, ok |-> TRUE, heap |-> h,
                   entries |-> entries, capacity |-> capacity]
        s == hashtable_set_entry(e.heap, e.entries, e.capacity, key, value,
                                 <<length>>, strdupOk)
    IN  IF e.hang
        THEN [hang |-> e.hang, grew |-> FALSE, heap |-> h,
              entries |-> entries, capacity |-> capacity, length |-> length,
              result |-> NULL]
        ELSE [hang |-> s.hang, grew |-> needs /\ e.ok, heap |-> s.heap,
              entries |-> e.entries, capacity |-> e.capacity,
              length |-> s.plength[1], result |-> s.result]

\* hashtable_set for a non-NULL value
hashtable_set(h, entries, capacity, length, key, value, callocOk, strdupOk) ==
    LET needs == NeedsExpand(length, capacity)
        e == IF needs
             THEN hashtable_expand(h, entries, capacity, callocOk)
             ELSE [hang |-> FALSE, ok |-> TRUE, heap |-> h,
                   entries |-> entries, capacity |-> capacity]
        s == hashtable_set_entry(e.heap, e.entries, e.capacity, key, value,
                                 <<length>>, strdupOk)
    IN  IF e.hang \/ ~e.ok
        THEN [hang |-> e.hang, grew |-> FALSE, heap |-> h,
              entries |-> entries, capacity |-> capacity, length |-> length,
              result |-> NULL]
        ELSE [hang |-> s.hang, grew |-> needs, heap |-> s.heap,
              entries |-> e.entries, capacity |-> e.capacity,
              length |-> s.plength[1], result |-> s.result]

RECURSIVE destroy_loop(_, _, _, _)
\* for (i = 0; i < table->capacity; i++) free(table->entries[i].key)
destroy_loop(h, entries, capacity, i) ==
    IF i >= capacity THEN h
    ELSE destroy_loop(Free(h, h[entries].slots[i + 1].key), entries, capacity,
                      i + 1)

\* hashtable_destroy forgetting the slot array
hashtable_destroy_leaks_entries(h, table, entries, capacity) ==
    Free(destroy_loop(h, entries, capacity, 0), table)

hashtable_destroy(h, table, entries, capacity) ==
    Free(Free(destroy_loop(h, entries, capacity, 0), entries), table)

RECURSIVE next_loop(_, _, _)
\* the scan never looking at the last slot: while (index < capacity - 1)
next_loop_misses_last(slots, capacity, index) ==
    IF ~(index < capacity - 1)
    THEN [found |-> FALSE, index |-> index, entry |-> EmptyEntry]
    ELSE IF slots[index + 1].key # NULL
    THEN [found |-> TRUE, index |-> (index + 1) % SizeMod,
          entry |-> slots[index + 1]]
    ELSE next_loop(slots, capacity, (index + 1) % SizeMod)

\* the scan starting over once it has reached the end of the array
next_loop_rewinds(slots, capacity, index) ==
    IF ~(index < capacity)
    THEN [found |-> FALSE, index |-> 0, entry |-> EmptyEntry]
    ELSE IF slots[index + 1].key # NULL
    THEN [found |-> TRUE, index |-> (index + 1) % SizeMod,
          entry |-> slots[index + 1]]
    ELSE next_loop(slots, capacity, (index + 1) % SizeMod)

\* The scan of hashtable_next from position index.
next_loop(slots, capacity, index) ==
    IF ~(index < capacity)
    THEN [found |-> FALSE, index |-> index, entry |-> EmptyEntry]
    ELSE IF slots[index + 1].key # NULL
    THEN [found |-> TRUE, index |-> (index + 1) % SizeMod,
          entry |-> slots[index + 1]]
    ELSE next_loop(slots, capacity, (index + 1) % SizeMod)

(***************************************************************************)
(* State.                                                                  *)
(***************************************************************************)
VARIABLES
    heap,       \* every block ever allocated, by pointer
    table,      \* the hashtable* the caller holds, NULL before create
    entries,    \* table->entries
    capacity,   \* table->capacity
    length,     \* table->length
    phase,      \* "none", "nomem", "live", "destroyed", "aborted", "hung"
    it,         \* the caller's hashtablei
    yielded,    \* the entries for which hashtable_next returned true on it
    everSet,    \* for each key, the value of its latest successful set
    last,       \* the latest call and its outcome
    counter,    \* main: the next tag to hand out
    tagOf       \* main: for each field name, the first tag used for it, or 0

vars == <<heap, table, entries, capacity, length, phase, it, yielded,
          everSet, last, counter, tagOf>>

tableVars == <<heap, table, entries, capacity, length>>
iterVars == <<it, yielded>>
mainVars == <<counter, tagOf>>

\* The caller holds no iterator.
NoIterator == [key |-> NULL, value |-> NULL, _table |-> NULL, _index |-> 0]

Call(op, outcome, key, value, result, grew) ==
    [op |-> op, outcome |-> outcome, key |-> key, value |-> value,
     result |-> result, grew |-> grew]

Init ==
    /\ heap = [k \in Keys |-> Block("caller", KeyText[k], <<>>)]
    /\ table = NULL
    /\ entries = NULL
    /\ capacity = 0
    /\ length = 0
    /\ phase = "none"
    /\ it = NoIterator
    /\ yielded = <<>>
    /\ everSet = [k \in Keys |-> NULL]
    /\ last = Call("none", "returned", NULL, NULL, NULL, FALSE)
    /\ counter = 1
    /\ tagOf = [k \in Keys |-> 0]

\* hashtable_create
Create(mallocOk, callocOk) ==
    /\ phase = "none"
    /\ LET h1 == Alloc(heap, "table", <<>>, <<>>)
           t == Len(h1)
           h2 == Calloc(h1, INITIAL_CAPACITY)
       IN  IF ~mallocOk
           THEN /\ phase' = "nomem"
                /\ last' = Call("create", "returned", NULL, NULL, NULL, FALSE)
                /\ UNCHANGED tableVars
           ELSE IF ~callocOk
           THEN /\ heap' = Free(h1, t)
                /\ phase' = "nomem"
                /\ last' = Call("create", "returned", NULL, NULL, NULL, FALSE)
                /\ UNCHANGED <<table, entries, capacity, length>>
           ELSE /\ heap' = h2
                /\ table' = t
                /\ entries' = Len(h2)
                /\ capacity' = INITIAL_CAPACITY
                /\ length' = 0
                /\ phase' = "live"
                /\ last' = Call("create", "returned", NULL, NULL, t, FALSE)
    /\ UNCHANGED <<iterVars, everSet, mainVars>>

\* hashtable_destroy
Destroy ==
    /\ phase = "live"
    /\ heap' = hashtable_destroy(heap, table, entries, capacity)
    /\ phase' = "destroyed"
    /\ last' = Call("destroy", "returned", NULL, NULL, NULL, FALSE)
    /\ UNCHANGED <<table, entries, capacity, length, iterVars, everSet,
                   mainVars>>

\* The caller runs an iteration as a loop of hashtable_next calls: the reads
\* hashtable_get and hashtable_length, which change neither the table nor an
\* iterator, are made while the caller holds no iterator.
Reading == phase = "live" /\ it._table = NULL

\* a hashtable_get that grows a table at its load limit before probing
Get_grows(key) ==
    /\ Reading
    /\ \E e \in {IF NeedsExpand(length, capacity)
                 THEN hashtable_expand(heap, entries, capacity, TRUE)
                 ELSE [hang |-> FALSE, ok |-> TRUE, heap |-> heap,
                       entries |-> entries, capacity |-> capacity]} :
         LET r == hashtable_get(e.heap, e.entries, e.capacity, key)
         IN  /\ heap' = e.heap
             /\ entries' = e.entries
             /\ capacity' = e.capacity
             /\ phase' = IF r.hang THEN "hung" ELSE phase
             /\ last' = Call("get", IF r.hang THEN "hung" ELSE "returned",
                             key, NULL, r.value, FALSE)
    /\ UNCHANGED <<table, length, iterVars, everSet, mainVars>>

\* hashtable_get
Get(key) ==
    /\ Reading
    /\ LET r == hashtable_get(heap, entries, capacity, key)
       IN  /\ phase' = IF r.hang THEN "hung" ELSE phase
           /\ last' = Call("get", IF r.hang THEN "hung" ELSE "returned", key,
                           NULL, r.value, FALSE)
    /\ UNCHANGED <<tableVars, iterVars, everSet, mainVars>>

\* The allocation request that the allocator refuses during a call, if any.
Failures == {"none", "calloc", "strdup"}

\* hashtable_set.  fail names the allocation the allocator refuses.  NDEBUG
\* tells whether the build compiles assert() out; it matters only to a call
\* with a NULL value, which ends the program in a build with assertions and
\* returns NULL in a build without.
Set(key, value, fail, NDEBUG) ==
    /\ phase = "live"
    /\ IF value = NULL
       THEN \* assert(value != NULL); if (value == NULL) return NULL;
            /\ phase' = IF NDEBUG THEN phase ELSE "aborted"
            /\ last' = Call("set", IF NDEBUG THEN "returned" ELSE "aborted",
                            key, value, NULL, FALSE)
            /\ UNCHANGED <<tableVars, everSet>>
       ELSE \E r \in {hashtable_set(heap, entries, capacity, length, key, value,
                                    fail # "calloc", fail # "strdup")} :
                /\ heap' = r.heap
                /\ entries' = r.entries
                /\ capacity' = r.capacity
                /\ length' = r.length
                /\ phase' = IF r.hang THEN "hung" ELSE phase
                /\ last' = Call("set", IF r.hang THEN "hung" ELSE "returned",
                                key, value, r.result, r.grew)
                /\ everSet' = IF r.result # NULL
                              THEN [everSet EXCEPT ![key] = value]
                              ELSE everSet
                /\ UNCHANGED table
    \* "Don't call hashtable_set during iteration" (hashtable.h): the caller
    \* that calls hashtable_set has given up its iterator.
    /\ it' = NoIterator
    /\ yielded' = <<>>
    /\ UNCHANGED mainVars

\* hashtable_length
Length ==
    /\ Reading
    /\ last' = Call("length", "returned", NULL, NULL, length, FALSE)
    /\ UNCHANGED <<tableVars, phase, iterVars, everSet, mainVars>>

\* The values an uninitialised pointer field may hold.
Indeterminate == {NULL, 1}

\* hashtable_iterator: key and value of the result are left uninitialised
Iterator(k, v) ==
    /\ phase = "live"
    /\ it' = [key |-> k, value |-> v, _table |-> table, _index |-> 0]
    /\ yielded' = <<>>
    /\ last' = Call("iterator", "returned", NULL, NULL, NULL, FALSE)
    /\ UNCHANGED <<tableVars, phase, everSet, mainVars>>

\* hashtable_next
Advance ==
    /\ phase = "live"
    /\ it._table # NULL
    /\ LET r == next_loop(heap[entries].slots, capacity, it._index)
       IN  /\ it' = IF r.found
                    THEN [it EXCEPT !.key = r.entry.key,
                                    !.value = r.entry.value,
                                    !._index = r.index]
                    ELSE [it EXCEPT !._index = r.index]
           /\ yielded' = IF r.found THEN Append(yielded, r.entry) ELSE yielded
           /\ last' = Call("next", "returned", NULL, NULL,
                           IF r.found THEN 1 ELSE 0, FALSE)
    /\ UNCHANGED <<tableVars, phase, everSet, mainVars>>

Next ==
    \/ \E mallocOk, callocOk \in BOOLEAN : Create(mallocOk, callocOk)
    \/ Destroy
    \/ \E key \in Keys : Get(key)
    \/ \E key \in Keys, value \in Values, fail \in Failures :
            Set(key, value, fail, TRUE)
    \/ \E key \in Keys, NDEBUG \in BOOLEAN : Set(key, NULL, "none", NDEBUG)
    \/ Length
    \/ \E k, v \in Indeterminate : Iterator(k, v)
    \/ Advance

Spec == Init /\ [][Next]_vars

(***************************************************************************)
(* The program of main.c: a table created once, the loop over the field    *)
(* names of the records, and the destruction of the table at the end.      *)
(***************************************************************************)
\* the largest tag the runs of the model hand out
MaxTag == 4

\* *tag for a value pointer of the table: the int behind it
TagAt(h, value) == h[value].str[1]

\* One pass of the body of json_object_object_foreach for the field name
\* key.  mallocOk tells whether malloc(sizeof(int)) succeeds and fail names
\* the allocation refused inside hashtable_set; both matter on a miss only.
\* The store through a NULL new_num ends the program.
Field(key, fail, mallocOk) ==
    /\ phase = "live"
    /\ \E g \in {hashtable_get(heap, entries, capacity, key)} :
         IF g.hang
         THEN /\ phase' = "hung"
              /\ last' = Call("field", "hung", key, NULL, NULL, FALSE)
              /\ UNCHANGED <<tableVars, everSet, mainVars>>
         ELSE IF g.value # NULL
         THEN /\ last' = Call("field", "returned", key, g.value,
                              TagAt(heap, g.value), FALSE)
              /\ tagOf' = IF tagOf[key] = 0
                          THEN [tagOf EXCEPT ![key] = TagAt(heap, g.value)]
                          ELSE tagOf
              /\ UNCHANGED <<tableVars, phase, everSet, counter>>
         ELSE IF ~mallocOk
         THEN /\ phase' = "aborted"
              /\ last' = Call("field", "aborted", key, NULL, NULL, FALSE)
              /\ UNCHANGED <<tableVars, everSet, mainVars>>
         ELSE /\ counter <= MaxTag
              /\ \E h1 \in {Alloc(heap, "caller", <<counter>>, <<>>)} :
                 \E r \in {hashtable_set(h1, entries, capacity, length, key,
                                          Len(h1), fail # "calloc",
                                          fail # "strdup")} :
                    /\ heap' = r.heap
                    /\ entries' = r.entries
                    /\ capacity' = r.capacity
                    /\ length' = r.length
                    /\ phase' = IF r.hang THEN "hung" ELSE phase
                    /\ everSet' = IF r.result # NULL
                                  THEN [everSet EXCEPT ![key] = Len(h1)]
                                  ELSE everSet
                    /\ counter' = (counter + 1) % SizeMod
                    /\ last' = Call("field",
                                    IF r.hang THEN "hung" ELSE "returned",
                                    key, Len(h1), TagAt(r.heap, Len(h1)),
                                    r.grew)
                    /\ tagOf' = IF tagOf[key] = 0 /\ ~r.hang
                                THEN [tagOf EXCEPT
                                         ![key] = TagAt(r.heap, Len(h1))]
                                ELSE tagOf
                    /\ UNCHANGED table
    /\ UNCHANGED iterVars

MainNext ==
    \/ \E mallocOk, callocOk \in BOOLEAN : Create(mallocOk, callocOk)
    \/ \E key \in Keys, fail \in Failures, mallocOk \in BOOLEAN :
            Field(key, fail, mallocOk)
    \/ Destroy

MainSpec == Init /\ [][MainNext]_vars


(***************************************************************************)
(* Vocabulary of the properties.                                           *)
(***************************************************************************)
\* the slot array of the table
Slots == heap[entries].slots

\* the indices (from 1) of the occupied slots
Occupied == {i \in 1..capacity : Slots[i].key # NULL}

\* what hashtable_get returns for the caller's key k in the current state
Lookup(k) == hashtable_get(heap, entries, capacity, k).value

\* hashtable_get comes back for every key
GetReturns == \A k \in Keys : ~hashtable_get(heap, entries, capacity, k).hang

\* the caller's key k is stored in some slot
Present(k) == \E i \in Occupied : heap[Slots[i].key].str = heap[k].str

\* the blocks the table allocated
TableBlocks == {p \in 1..Len(heap) : heap[p].kind # "caller"}

\* the latest call was a hashtable_set that returned
SetReturned == last.op = "set" /\ last.outcome = "returned"

(***************************************************************************)
(* C1.  Round trip, last write wins: in every state of a live table, for   *)
(* every key whose latest successful hashtable_set stored the value v,     *)
(* hashtable_get returns v, whatever growth happened in between; and a     *)
(* hashtable_get call that was made returned exactly that.                 *)
(***************************************************************************)
RoundTrip ==
    phase = "live" =>
        /\ GetReturns
        /\ \A k \in Keys : everSet[k] # NULL => Lookup(k) = everSet[k]
        /\ (last.op = "get" /\ everSet[last.key] # NULL) =>
               last.result = everSet[last.key]

\* a get returned the second value of an overwritten key in a table that grew
\* to 8 slots and holds 4 keys
RoundTripWitness ==
    /\ phase = "live"
    /\ last.op = "get"
    /\ last.result = 2
    /\ capacity = 8
    /\ length = 4
    /\ \E k \in Keys : everSet[k] = 1

(***************************************************************************)
(* C2.  A failed hashtable_set leaves the table as it was: whenever        *)
(* hashtable_set returns NULL, the capacity, the contents of the slot      *)
(* array and the length are what they were before the call.                *)
(***************************************************************************)
FailedSetLeavesTable ==
    [][(last'.op = "set" /\ last'.outcome = "returned" /\ last'.result = NULL)
         => /\ capacity' = capacity
            /\ length' = length
            /\ Slots' = Slots]_vars

(***************************************************************************)
(* C3.  Count invariant: in every state of a live table, the length equals *)
(* the number of distinct keys ever set successfully and the number of     *)
(* occupied slots, so neither growth nor an overwrite changes it.          *)
(***************************************************************************)
CountInvariant ==
    phase = "live" =>
        /\ length = Cardinality({k \in Keys : everSet[k] # NULL})
        /\ length = Cardinality(Occupied)
        /\ (last.op = "length" => last.result = length)

\* an overwrite of the only key made the table grow from 2 to 4 slots
CountInvariantWitness ==
    /\ phase = "live"
    /\ SetReturned
    /\ last.grew
    /\ last.result # NULL
    /\ capacity = 4
    /\ length = 1

(***************************************************************************)
(* C4.  Growth correctness: a hashtable_set during which the table grew    *)
(* leaves every key other than the one set with the value it had, stores   *)
(* no key twice and drops none, reuses the stored key blocks, and changes  *)
(* the length only by the key it inserts; when the insertion after the     *)
(* growth fails, the growth alone changed nothing of the mapping.          *)
(***************************************************************************)
\* the key pointers held by the slots
StoredKeys == {Slots[i].key : i \in Occupied}

\* what hashtable_get returns for the caller's key k after the step
LookupAfter(k) == hashtable_get(heap', entries', capacity', k).value

GrowthPreservesMapping ==
    [][(last'.op = "set" /\ last'.outcome = "returned" /\ last'.grew)
         => /\ capacity' = 2 * capacity
            /\ \A k \in Keys : k # last'.key => LookupAfter(k) = Lookup(k)
            /\ last'.result = NULL => LookupAfter(last'.key) = Lookup(last'.key)
            /\ StoredKeys' \ {last'.result} = StoredKeys \ {last'.result}
            /\ Cardinality(Occupied') = Cardinality(StoredKeys')
            /\ \A i, j \in Occupied' :
                   i # j => heap'[Slots'[i].key].str # heap'[Slots'[j].key].str
            /\ length' = length + (IF last'.result # NULL /\ ~Present(last'.key)
                                   THEN 1 ELSE 0)
            /\ Cardinality(Occupied') = length']_vars

\* the table grew from 4 to 8 slots, moving two keys, and then took a third
GrowthPreservesMappingWitness ==
    /\ phase = "live"
    /\ SetReturned
    /\ last.grew
    /\ capacity = 8
    /\ length = 3
    /\ \A k \in Keys : everSet[k] # NULL => Lookup(k) = everSet[k]

(***************************************************************************)
(* C5.  Load factor: between operations, from the fresh table on and after *)
(* every hashtable_set, successful or failed, length <= capacity / 2.      *)
(***************************************************************************)
LoadFactor == phase = "live" => length <= capacity \div 2

\* a hashtable_set failed on a table filled to exactly half of its 8 slots
LoadFactorWitness ==
    /\ phase = "live"
    /\ SetReturned
    /\ last.value # NULL
    /\ last.result = NULL
    /\ capacity = 8
    /\ length = 4

Absence ==
    phase = "live" =>
        /\ GetReturns
        /\ \A k \in Keys : everSet[k] = NULL => Lookup(k) = NULL
        /\ (last.op = "get" /\ everSet[last.key] = NULL) => last.result = NULL

\* a get of the one absent key returned NULL from a table holding the other
\* three, after a probe that began at an occupied slot
AbsenceWitness ==
    /\ phase = "live"
    /\ last.op = "get"
    /\ last.result = NULL
    /\ everSet[last.key] = NULL
    /\ length = 3
    /\ Slots[StartIndex(hash_key(heap[last.key].str), capacity) + 1].key # NULL

(***************************************************************************)
(* C8.  Iteration completeness: while the table is not modified, the       *)
(* entries for which hashtable_next returned true are entries of the       *)
(* table and pairwise different, the iterator shows the latest of them,    *)
(* and once hashtable_next has returned false they are all the entries of  *)
(* the table, hashtable_length(table) many.                                *)
(***************************************************************************)
TableEntries == {Slots[i] : i \in Occupied}

IterationComplete ==
    (phase = "live" /\ it._table # NULL) =>
        /\ \A i \in 1..Len(yielded) : yielded[i] \in TableEntries
        /\ \A i, j \in 1..Len(yielded) : i # j => yielded[i] # yielded[j]
        /\ Len(yielded) > 0 =>
               /\ it.key = yielded[Len(yielded)].key
               /\ it.value = yielded[Len(yielded)].value
        /\ (last.op = "next" /\ last.result = 1) => Len(yielded) > 0
        /\ (last.op = "next" /\ last.result = 0) =>
               /\ {yielded[i] : i \in 1..Len(yielded)} = TableEntries
               /\ Len(yielded) = length

\* hashtable_next returned false after yielding the 4 entries of a table of
\* 8 slots
IterationCompleteWitness ==
    /\ phase = "live"
    /\ it._table # NULL
    /\ last.op = "next"
    /\ last.result = 0
    /\ Len(yielded) = 4
    /\ capacity = 8

(***************************************************************************)
(* C9.  Contract violation on a NULL value: hashtable_set with a NULL      *)
(* value does not modify the table, and its outcome differs from the       *)
(* outcome of an allocation failure, which is the return of NULL.          *)
(***************************************************************************)
NullValueSignalledDistinctly ==
    [][(last'.op = "set" /\ last'.value = NULL)
         => /\ tableVars' = tableVars
            /\ ~(last'.outcome = "returned" /\ last'.result = NULL)]_vars

(***************************************************************************)
(* C10.  Key ownership and release: no block is released twice; while the  *)
(* table is in use exactly its record, its current slot array and its key  *)
(* copies are live, every superseded slot array has been released once,    *)
(* and every key copy is held by exactly one slot; after hashtable_destroy *)
(* and after a failed hashtable_create every block the table allocated has *)
(* been released exactly once; the caller's strings are never released.    *)
(***************************************************************************)
StorageReleasedOnce ==
    /\ \A p \in 1..Len(heap) :
           /\ heap[p].frees <= 1
           /\ heap[p].live <=> heap[p].frees = 0
           /\ heap[p].kind = "caller" => heap[p].live
    /\ phase = "none" => TableBlocks = {}
    /\ phase \in {"live", "aborted", "hung"} =>
           /\ \A p \in TableBlocks :
                  heap[p].live <=>
                      (p = table \/ p = entries \/ heap[p].kind = "key")
           /\ StoredKeys = {p \in TableBlocks : heap[p].kind = "key"}
           /\ Cardinality(Occupied) = Cardinality(StoredKeys)
    /\ phase \in {"destroyed", "nomem"} =>
           \A p \in TableBlocks : ~heap[p].live /\ heap[p].frees = 1

\* a table that grew to 8 slots and copied 4 keys was destroyed: its record,
\* 4 slot arrays and 4 key copies are released
StorageReleasedOnceWitness ==
    /\ phase = "destroyed"
    /\ capacity = 8
    /\ length = 4
    /\ Cardinality(TableBlocks) = 9

(***************************************************************************)
(* C11.  Capacity shape: the capacity of a table is a power of two and at  *)
(* least 1 from hashtable_create on; every step leaves it unchanged or     *)
(* exactly doubles it, and only a hashtable_set changes it.                *)
(***************************************************************************)
RECURSIVE IsPowerOfTwo(_)
IsPowerOfTwo(n) ==
    IF n <= 1 THEN n = 1 ELSE n % 2 = 0 /\ IsPowerOfTwo(n \div 2)

CapacityShape ==
    [][/\ phase' \in {"live", "destroyed", "aborted", "hung"} =>
              capacity' >= 1 /\ IsPowerOfTwo(capacity')
       /\ phase = "live" =>
              /\ capacity' = capacity \/ capacity' = 2 * capacity
              /\ capacity' # capacity => last'.op = "set"]_vars

\* the third doubling, from 4 to 8 slots, was made by a hashtable_set that
\* overwrote one of the two keys of the table
CapacityShapeWitness ==
    /\ phase = "live"
    /\ last.op = "set"
    /\ last.grew
    /\ last.result # NULL
    /\ capacity = 8
    /\ length = 2

(***************************************************************************)
(* C12.  Capacity overflow: a hashtable_set that has to grow a table whose *)
(* doubled capacity wraps around in size_t gets the failure result from    *)
(* hashtable_expand, returns NULL and leaves the table, its heap blocks    *)
(* included, as it was; the wrapped capacity is never installed.           *)
(***************************************************************************)
\* capacity * 2 wraps around in size_t
DoublingOverflows == (capacity * 2) % SizeMod < capacity

CapacityOverflowFails ==
    [][(/\ last'.op = "set"
        /\ last'.value # NULL
        /\ NeedsExpand(length, capacity)
        /\ DoublingOverflows)
         => /\ \A callocOk \in BOOLEAN :
                   LET e == hashtable_expand(heap, entries, capacity, callocOk)
                   IN  ~e.ok /\ ~e.hang /\ e.capacity = capacity
                       /\ e.entries = entries /\ e.heap = heap
            /\ last'.outcome = "returned"
            /\ last'.result = NULL
            /\ ~last'.grew
            /\ tableVars' = tableVars
            /\ capacity' # (capacity * 2) % SizeMod
            /\ everSet' = everSet]_vars

\* a hashtable_set failed on a table whose capacity cannot be doubled and
\* which is filled to half
CapacityOverflowFailsWitness ==
    /\ phase = "live"
    /\ SetReturned
    /\ last.value # NULL
    /\ last.result = NULL
    /\ DoublingOverflows
    /\ NeedsExpand(length, capacity)
    /\ \A k \in Keys : Lookup(k) = everSet[k] /\ everSet[k] # NULL

(***************************************************************************)
(* C13.  Tag registry of the main loop: the tag used for a field name that *)
(* was processed before is the tag first used for it; the tag used for a   *)
(* new field name is 1 when no tag was handed out before and larger than   *)
(* every tag handed out before otherwise; and different field names have   *)
(* different tags.                                                         *)
(***************************************************************************)
\* the field names processed so far
Tagged == {k \in Keys : tagOf[k] # 0}

TagRegistry ==
    [][(last'.op = "field" /\ last'.outcome = "returned")
         => /\ last'.key \in Tagged => last'.result = tagOf[last'.key]
            /\ last'.key \notin Tagged =>
                   /\ Tagged = {} => last'.result = 1
                   /\ \A k \in Tagged : last'.result > tagOf[k]
            /\ \A j, k \in Keys :
                   (j # k /\ tagOf'[j] # 0) => tagOf'[j] # tagOf'[k]]_vars

(***************************************************************************)
(* C14.  Lookup is read-only: a hashtable_get changes neither the slot     *)
(* array nor the capacity nor the length nor any heap block, so it never   *)
(* grows the table, not even one at its load limit; what it returns is     *)
(* what a hashtable_get for the same key returns in the state it leaves,   *)
(* and a hashtable_get that follows one for the same key returns the same. *)
(***************************************************************************)
LookupReadOnly ==
    [][last'.op = "get"
         => /\ heap' = heap
            /\ entries' = entries
            /\ Slots' = Slots
            /\ capacity' = capacity
            /\ length' = length
            /\ phase' = phase
            /\ last'.result = LookupAfter(last'.key)
            /\ (last.op = "get" /\ last.key = last'.key) =>
                   last'.result = last.result]_vars

\* a hashtable_get found a key in a table of 4 slots filled to its load
\* limit, where a hashtable_set would have grown the table
LookupReadOnlyWitness ==
    /\ phase = "live"
    /\ last.op = "get"
    /\ last.result # NULL
    /\ NeedsExpand(length, capacity)
    /\ capacity = 4
    /\ length = 2

(***************************************************************************)
(* C15.  Probe-chain invariant: in every state of a live table no key text *)
(* is held by two slots, and for every occupied slot every slot on the     *)
(* cyclic forward path from the home index of its key to the slot is       *)
(* occupied; so hashtable_get returns NULL, having reached an empty slot,  *)
(* exactly for the keys no slot holds.  The states after insertions and    *)
(* after growth are among these states.                                    *)
(***************************************************************************)
\* the home index hash & (capacity - 1) of the key held by slot i (from 1)
Home(i) == StartIndex(hash_key(heap[Slots[i].key].str), capacity)

\* how many steps forward, cyclically, slot i lies from the home index of
\* its key
Displacement(i) == ((i - 1) - Home(i) + capacity) % capacity

ProbeChain ==
    phase = "live" =>
        /\ \A i, j \in Occupied :
               i # j => heap[Slots[i].key].str # heap[Slots[j].key].str
        /\ \A i \in Occupied : \A d \in 0..Displacement(i) :
               Slots[((Home(i) + d) % capacity) + 1].key # NULL
        /\ \A k \in Keys : Present(k) <=> Lookup(k) # NULL

\* a table of 8 slots after growth holds 4 keys, one of them at the last
\* slot, one wrapped around from there to slot 0, and one two slots past
\* its home index
ProbeChainWitness ==
    /\ phase = "live"
    /\ capacity = 8
    /\ length = 4
    /\ \E i \in Occupied : Home(i) > i - 1
    /\ \E i \in Occupied : Displacement(i) >= 2

(***************************************************************************)
(* C16.  Key storage is stable: on every step of a live table that is not  *)
(* its destruction, every key block held by a slot is still held by a slot *)
(* and is untouched, growth included; the key blocks ever allocated grow   *)
(* by exactly the block a successful insertion of a new key returns; a     *)
(* successful hashtable_set returns a live block held by a slot and        *)
(* holding the text of the key, and for a key that was present it is the   *)
(* block that held the key before.                                         *)
(***************************************************************************)
\* the key copies ever allocated by strdup
KeyBlocks == {p \in 1..Len(heap) : heap[p].kind = "key"}

KeyStorageStable ==
    [][(phase = "live" /\ phase' = "live")
         => /\ StoredKeys \subseteq StoredKeys'
            /\ \A p \in StoredKeys : heap'[p] = heap[p]
            /\ KeyBlocks \subseteq KeyBlocks'
            /\ KeyBlocks' \ KeyBlocks =
                   IF last'.op = "set" /\ last'.result # NULL
                      /\ ~Present(last'.key)
                   THEN {last'.result} ELSE {}
            /\ (last'.op = "set" /\ last'.result # NULL) =>
                   /\ last'.result \in StoredKeys'
                   /\ heap'[last'.result].live
                   /\ heap'[last'.result].str = heap[last'.key].str
                   /\ Present(last'.key) => last'.result \in StoredKeys]_vars

\* an overwrite that made the table grow to 8 slots returned a key block
\* older than the slot array now holding it; no key was copied again
KeyStorageStableWitness ==
    /\ phase = "live"
    /\ SetReturned
    /\ last.grew
    /\ last.result \in StoredKeys
    /\ last.result < entries
    /\ capacity = 8
    /\ Cardinality(KeyBlocks) = 2

(***************************************************************************)
(* C17.  Probing terminates: no call ever hangs, and in every state of a   *)
(* live table the slot array probed by hashtable_get has an empty slot and *)
(* hashtable_get returns for every key; the slot array probed by a         *)
(* hashtable_set after its growth check, grown or not, has an empty slot   *)
(* and the probe returns for every key; and the entries moved by a growth  *)
(* are fewer than the slots of the new array, so that every re-insertion   *)
(* finds an empty slot and the move returns.                               *)
(***************************************************************************)
\* the slot array at pointer p of heap h, of n slots, has an empty slot
HasEmptySlot(h, p, n) == \E i \in 1..n : h[p].slots[i].key = NULL

\* the state of the table after the growth check of a hashtable_set
AfterGrowthCheck(callocOk) ==
    IF NeedsExpand(length, capacity)
    THEN hashtable_expand(heap, entries, capacity, callocOk)
    ELSE [hang |-> FALSE, ok |-> TRUE, heap |-> heap, entries |-> entries,
          capacity |-> capacity]

ProbingTerminates ==
    /\ phase # "hung"
    /\ phase = "live" =>
           /\ HasEmptySlot(heap, entries, capacity)
           /\ GetReturns
           /\ (NeedsExpand(length, capacity) /\ ~DoublingOverflows) =>
                  Cardinality(Occupied) < (capacity * 2) % SizeMod
           /\ \A callocOk \in BOOLEAN :
                  LET e == AfterGrowthCheck(callocOk)
                  IN  /\ ~e.hang
                      /\ e.ok =>
                             /\ HasEmptySlot(e.heap, e.entries, e.capacity)
                             /\ \A key \in Keys :
                                    ~set_loop(e.heap, e.heap[e.entries].slots,
                                              e.capacity, key,
                                              StartIndex(
                                                  hash_key(e.heap[key].str),
                                                  e.capacity), 0).hang

\* a hashtable_get for an absent key returned NULL after a probe that began
\* at the last slot, wrapped around and passed three occupied slots
ProbingTerminatesWitness ==
    /\ phase = "live"
    /\ last.op = "get"
    /\ last.outcome = "returned"
    /\ last.result = NULL
    /\ ~Present(last.key)
    /\ LET start == StartIndex(hash_key(heap[last.key].str), capacity)
       IN  /\ start = capacity - 1
           /\ \A d \in 0..2 : Slots[((start + d) % capacity) + 1].key # NULL

(***************************************************************************)
(* C18.  Iterator exhaustion is sticky: when hashtable_next has returned   *)
(* false on the caller's iterator and is called on it again, the table not *)
(* having been modified in between, it returns false again and leaves the  *)
(* key, the value and the position of the iterator, and the entries        *)
(* yielded, as they were: the scan from the position of an exhausted       *)
(* iterator finds nothing and ends at that position.                       *)
(***************************************************************************)
\* hashtable_next has returned false on the iterator the caller holds
Exhausted == last.op = "next" /\ last.result = 0 /\ it._table # NULL

ExhaustionSticky ==
    [][/\ Exhausted =>
              LET r == next_loop(Slots, capacity, it._index)
              IN  ~r.found /\ r.index = it._index
       /\ (Exhausted /\ last'.op = "next") =>
              /\ last'.result = 0
              /\ it' = it
              /\ yielded' = yielded
              /\ tableVars' = tableVars]_vars

\* hashtable_next returned false on an iterator that stands at the end of an
\* array of 8 slots and still shows the last of the 3 entries it yielded
ExhaustionStickyWitness ==
    /\ phase = "live"
    /\ it._table # NULL
    /\ last.op = "next"
    /\ last.result = 0
    /\ it._index = capacity
    /\ capacity = 8
    /\ Len(yielded) = 3
    /\ it.key = yielded[3].key
    /\ ENABLED Advance

(***************************************************************************)
(* C19.  A failed hashtable_set never changes what the table contains:     *)
(* when hashtable_set returns NULL, for whatever reason, the length and    *)
(* what hashtable_get returns for every key are what they were before the  *)
(* call, the capacity is the old capacity or its double, and in the state  *)
(* the call leaves the capacity is a power of two and the count invariant  *)
(* and the probe-chain invariant hold.                                     *)
(***************************************************************************)
\* the latest call was a hashtable_set that returned NULL
SetFailed == SetReturned /\ last.result = NULL

FailedSetKeepsContents ==
    [][/\ SetFailed =>
              /\ capacity >= 1
              /\ IsPowerOfTwo(capacity)
              /\ CountInvariant
              /\ ProbeChain
       /\ SetFailed' =>
              /\ length' = length
              /\ \A k \in Keys : LookupAfter(k) = Lookup(k)
              /\ everSet' = everSet
              /\ capacity' = capacity \/ capacity' = 2 * capacity]_vars

\* a hashtable_set failed on an empty table of 2 slots: the table was
\* created with 1 slot, so a failed call has doubled its capacity
FailedSetKeepsContentsWitness ==
    /\ phase = "live"
    /\ SetReturned
    /\ last.value # NULL
    /\ last.result = NULL
    /\ capacity = 2
    /\ length = 0
    /\ Occupied = {}

(***************************************************************************)
(* C20.  Index derivation: in every state of a live table, for every hash  *)
(* value of a set of samples that holds the hashes of the keys and every   *)
(* pattern of the low bits up to one bit past the widest mask, the start   *)
(* index hash & (capacity - 1) equals hash mod capacity and lies in        *)
(* 0..capacity-1, which is so for the keys the slots hold too; and the     *)
(* step of the probe loops of hashtable_get and hashtable_set_entry leads  *)
(* from an index in 0..capacity-1 to the next one modulo capacity, so that *)
(* every index a probe touches is in that range.  (Both functions derive   *)
(* the start index by the one expression StartIndex.)                      *)
(***************************************************************************)
RECURSIVE HashModFrom(_, _, _, _)
\* the remainder modulo c of bytes j..8 of hash, r being that of the bytes
\* above j
HashModFrom(hash, c, j, r) ==
    IF j = 0 THEN r ELSE HashModFrom(hash, c, j - 1, (r * 256 + hash[j]) % c)

\* hash mod c for a 64-bit hash
HashMod(hash, c) == HashModFrom(hash, c, 8, 0)

HashSamples ==
    {KeyHashes[KeyText[k]] : k \in Keys}
        \cup {[FNV_OFFSET EXCEPT ![1] = low] : low \in 0..(2 * SizeMod - 1)}
        \cup {[FNV_PRIME EXCEPT ![1] = 255 - low] : low \in 0..(SizeMod - 1)}

IndexDerivation ==
    phase = "live" =>
        /\ \A hash \in HashSamples :
               /\ StartIndex(hash, capacity) = HashMod(hash, capacity)
               /\ StartIndex(hash, capacity) \in 0..(capacity - 1)
        /\ \A index \in 0..(capacity - 1) :
               /\ NextIndex(index, capacity) \in 0..(capacity - 1)
               /\ NextIndex(index, capacity) = (index + 1) % capacity
        /\ \A i \in Occupied :
               Home(i) = HashMod(hash_key(heap[Slots[i].key].str), capacity)

\* a hashtable_get found, at the last of 8 slots, a key whose hash has bits
\* set above the mask
IndexDerivationWitness ==
    /\ phase = "live"
    /\ capacity = 8
    /\ last.op = "get"
    /\ last.result # NULL
    /\ LET hash == hash_key(heap[last.key].str)
       IN  /\ hash[1] >= capacity
           /\ StartIndex(hash, capacity) = capacity - 1
           /\ Slots[capacity].key # NULL
           /\ StrEq(heap, last.key, Slots[capacity].key)
====
